---- MODULE Spec2Model ----
(***************************************************************************)
(* A model of simple_sheet (src/simple_sheet/core.py): the in-memory grid  *)
(* SimpleSheet, the file-backed CsvSheet, the remote-backed GoogleSheet    *)
(* and the credential resolution of GoogleSheet / open_sheet.              *)
(*                                                                         *)
(* Text (a Python str) is a sequence of Unicode code points, so that       *)
(* ord(c) is the element itself.  An Optional[str] is <<>> for None and    *)
(* <<text>> for a string: None and the empty string <<<<>>>> differ.       *)
(***************************************************************************)
EXTENDS Integers, Sequences, FiniteSets, TLC

VARIABLES
    rows,      \* SimpleSheet._rows: a sequence of rows, each a sequence of Optional[str]
    op,        \* the call made last: its name and arguments
    ret,       \* how that call ended: the exception raised ("" for none) and the value returned
    written,   \* history: for each coordinate, the value passed by the last write since the last clear
    file,      \* CsvSheet: the backing file, <<>> when it does not exist, else <<its text>>
    io,        \* the I/O the last call performed (lines printed, file opens, remote calls), in order
    env        \* the process environment, the file system and the arguments of a construction

vars == <<rows, op, ret, written, file, io, env>>

----------------------------------------------------------------------------
(* Bounds *)

\* the grids explored have at most MaxRow rows of at most MaxCol cells each,
\* and at most MaxCells cells in all
MaxRow == 2
MaxCol == 2
MaxCells == 3

----------------------------------------------------------------------------
(* Python values and text *)

None == <<>>
Some(s) == <<s>>

PyStr(s) == [kind |-> "str", s |-> s, n |-> 0]
PyInt(n) == [kind |-> "int", s |-> <<>>, n |-> n]

RECURSIVE NatToText(_)
NatToText(n) ==
    IF n < 10 THEN <<48 + n>>
    ELSE NatToText(n \div 10) \o <<48 + (n % 10)>>

\* str(value): a str is itself, an int is its decimal digits
Str(value) ==
    IF value.kind = "str" THEN value.s
    ELSE IF value.n < 0 THEN <<45>> \o NatToText(0 - value.n)
    ELSE NatToText(value.n)

\* the values the grid engine is driven with: "", and the int 7
Values == {PyStr(<<>>), PyInt(7)}

NoValue == PyStr(<<>>)

Call(name, row, col, value, values) ==
    [name |-> name, row |-> row, col |-> col, value |-> value, values |-> values]

Return(val) == [exc |-> "", val |-> val]
Raise(exc) == [exc |-> exc, val |-> None]

Cell(row, col, value) == [row |-> row, col |-> col, value |-> value]

----------------------------------------------------------------------------
(* SimpleSheet: internal utilities *)

validate_positive(value) == value >= 1

validate_row_col(row, col) == validate_positive(row) /\ validate_positive(col)

RECURSIVE ensure_row(_, _)
ensure_row(rws, row) ==
    IF Len(rws) < row THEN ensure_row(Append(rws, <<>>), row) ELSE rws

\* a faulty ensure_col, padding one cell too many (<= for <)
RECURSIVE ensure_col_one_more(_, _)
ensure_col_one_more(row_data, col) ==
    IF Len(row_data) <= col THEN ensure_col_one_more(Append(row_data, None), col)
    ELSE row_data

RECURSIVE ensure_col(_, _)
ensure_col(row_data, col) ==
    IF Len(row_data) < col THEN ensure_col(Append(row_data, None), col) ELSE row_data

\* a faulty write_cell, taking the last row (self._rows[-1]) for the row asked for
write_cell_last_row(rws, row, col, value) ==
    LET grown == ensure_row(rws, row)
        row_data == ensure_col(grown[Len(grown)], col)
    IN  [grown EXCEPT ![Len(grown)] = [row_data EXCEPT ![col] = Some(Str(value))]]

\* the body of set_cell after validation
write_cell(rws, row, col, value) ==
    LET grown == ensure_row(rws, row)
        row_data == ensure_col(grown[row], col)
    IN  [grown EXCEPT ![row] = [row_data EXCEPT ![col] = Some(Str(value))]]

\* the value get_cell finds
cell_value(rws, row, col) ==
    IF row <= Len(rws)
    THEN IF col <= Len(rws[row]) THEN rws[row][col] ELSE None
    ELSE None

coerce_row(values) == [i \in 1..Len(values) |-> Some(Str(values[i]))]

column_of(rws, col) ==
    [i \in 1..Len(rws) |-> IF col <= Len(rws[i]) THEN rws[i][col] ELSE None]

RECURSIVE max_len(_)
max_len(rws) ==
    IF rws = <<>> THEN 0
    ELSE LET rest == max_len(Tail(rws))
         IN  IF Len(Head(rws)) > rest THEN Len(Head(rws)) ELSE rest

----------------------------------------------------------------------------
(* SimpleSheet: operations.  Each constrains rows', op' and ret'. *)

set_cell(row, col, value) ==
    /\ op' = Call("set_cell", row, col, value, <<>>)
    /\ IF ~validate_row_col(row, col)
       THEN /\ rows' = rows
            /\ ret' = Raise("InvalidParameter")
       ELSE /\ rows' = write_cell(rows, row, col, value)
            /\ ret' = Return(None)

\* a faulty get_cell, growing the grid to the row it reads
get_cell_growing(row, col) ==
    /\ op' = Call("get_cell", row, col, NoValue, <<>>)
    /\ IF ~validate_row_col(row, col)
       THEN rows' = rows /\ ret' = Raise("InvalidParameter")
       ELSE /\ rows' = ensure_row(rows, row)
            /\ ret' = Return(Cell(row, col, cell_value(rows, row, col)))

get_cell(row, col) ==
    /\ op' = Call("get_cell", row, col, NoValue, <<>>)
    /\ rows' = rows
    /\ IF ~validate_row_col(row, col)
       THEN ret' = Raise("InvalidParameter")
       ELSE ret' = Return(Cell(row, col, cell_value(rows, row, col)))

\* a faulty append_row, without the test for empty values
append_row_unchecked(values) ==
    /\ op' = Call("append_row", 0, 0, NoValue, values)
    /\ rows' = Append(rows, coerce_row(values))
    /\ ret' = Return(Len(rows'))

append_row(values) ==
    /\ op' = Call("append_row", 0, 0, NoValue, values)
    /\ IF values = <<>>
       THEN /\ rows' = rows
            /\ ret' = Raise("InvalidParameter")
       ELSE /\ rows' = Append(rows, coerce_row(values))
            /\ ret' = Return(Len(rows'))

get_row(row) ==
    /\ op' = Call("get_row", row, 0, NoValue, <<>>)
    /\ rows' = rows
    /\ IF ~validate_positive(row)
       THEN ret' = Raise("InvalidParameter")
       ELSE IF row > Len(rows) THEN ret' = Return(<<>>)
       ELSE ret' = Return(rows[row])

get_max_row ==
    /\ op' = Call("get_max_row", 0, 0, NoValue, <<>>)
    /\ rows' = rows
    /\ ret' = Return(Len(rows))

\* a faulty get_column, leaving out the rows shorter than col
get_column_present_only(col) ==
    /\ op' = Call("get_column", 0, col, NoValue, <<>>)
    /\ rows' = rows
    /\ IF ~validate_positive(col)
       THEN ret' = Raise("InvalidParameter")
       ELSE LET present == SelectSeq(rows, LAMBDA row_data : col <= Len(row_data))
            IN  ret' = Return([i \in 1..Len(present) |-> present[i][col]])

get_column(col) ==
    /\ op' = Call("get_column", 0, col, NoValue, <<>>)
    /\ rows' = rows
    /\ IF ~validate_positive(col)
       THEN ret' = Raise("InvalidParameter")
       ELSE ret' = Return(column_of(rows, col))

get_max_column ==
    /\ op' = Call("get_max_column", 0, 0, NoValue, <<>>)
    /\ rows' = rows
    /\ ret' = Return(IF rows = <<>> THEN 0 ELSE max_len(rows))

get_all_rows ==
    /\ op' = Call("get_all_rows", 0, 0, NoValue, <<>>)
    /\ rows' = rows
    /\ ret' = Return(rows)

\* a faulty clear, emptying each row and keeping the rows
clear_rows_kept ==
    /\ op' = Call("clear", 0, 0, NoValue, <<>>)
    /\ rows' = [i \in 1..Len(rows) |-> <<>>]
    /\ ret' = Return(None)

clear ==
    /\ op' = Call("clear", 0, 0, NoValue, <<>>)
    /\ rows' = <<>>
    /\ ret' = Return(None)

----------------------------------------------------------------------------
(* SimpleSheet.display: the lines handed to safe_print, in order *)

\* a faulty character width, every character one column wide (len for the width)
char_width_one(c) == 1

char_width(c) == IF c > 127 THEN 2 ELSE 1

RECURSIVE text_width(_)
text_width(s) ==
    IF s = <<>> THEN 0 ELSE char_width(Head(s)) + text_width(Tail(s))

Repeat(c, n) == [i \in 1..n |-> c]

RECURSIVE Join(_, _)
Join(sep, parts) ==
    IF parts = <<>> THEN <<>>
    ELSE IF Len(parts) = 1 THEN parts[1]
    ELSE parts[1] \o sep \o Join(sep, Tail(parts))

\* "(empty sheet)"
EmptySheetText == <<40, 101, 109, 112, 116, 121, 32, 115, 104, 101, 101, 116, 41>>

\* the width of a cell of column col in row, 0 when absent or None
cell_width(row, col) ==
    IF col <= Len(row) /\ row[col] # None THEN text_width(row[col][1]) ELSE 0

RECURSIVE col_width(_, _)
col_width(rws, col) ==
    IF rws = <<>> THEN 0
    ELSE LET rest == col_width(Tail(rws), col)
             width == cell_width(Head(rws), col)
         IN  IF width > rest THEN width ELSE rest

col_widths(rws) == [col \in 1..max_len(rws) |-> col_width(rws, col)]

separator(rws) ==
    LET w == col_widths(rws)
    IN  <<43>> \o Join(<<43>>, [i \in 1..Len(w) |-> Repeat(45, w[i] + 2)]) \o <<43>>

row_line(rws, row) ==
    LET w == col_widths(rws)
        cell_text(col) == IF col <= Len(row) /\ row[col] # None THEN row[col][1] ELSE <<>>
        padding(col) == w[col] - text_width(cell_text(col))
        cells == [col \in 1..Len(w) |->
                    <<32>> \o cell_text(col) \o Repeat(32, padding(col)) \o <<32>>]
    IN  <<124>> \o Join(<<124>>, cells) \o <<124>>

RECURSIVE row_lines(_, _)
row_lines(rws, row_idx) ==
    IF row_idx > Len(rws) THEN <<>>
    ELSE <<row_line(rws, rws[row_idx])>>
         \o (IF row_idx = 1 THEN <<separator(rws)>> ELSE <<>>)
         \o row_lines(rws, row_idx + 1)

display_lines(rws) ==
    IF rws = <<>> THEN <<EmptySheetText>>
    ELSE <<separator(rws)>> \o row_lines(rws, 1) \o <<separator(rws)>>

display ==
    /\ op' = Call("display", 0, 0, NoValue, <<>>)
    /\ rows' = rows
    /\ ret' = Return(None)
    /\ io' = display_lines(rows)

----------------------------------------------------------------------------
(* The grid engine driven by a caller *)

NoEnv == [kind |-> "none"]

RECURSIVE CellCount(_)
CellCount(rws) == IF rws = <<>> THEN 0 ELSE Len(Head(rws)) + CellCount(Tail(rws))

\* the grid stays within the bounds
InBounds(rws) ==
    /\ Len(rws) <= MaxRow
    /\ \A i \in 1..Len(rws) : Len(rws[i]) <= MaxCol
    /\ CellCount(rws) <= MaxCells

NothingWritten == [rc \in (1..MaxRow) \X (1..MaxCol) |-> <<>>]

WriteCoords(n) == (-1)..n
ReadCoords(n) == (-1)..(n + 1)

RowsOf(vals, n) == UNION {[1..k -> vals] : k \in 0..n}

Init ==
    /\ rows = <<>>
    /\ op = Call("__init__", 0, 0, NoValue, <<>>)
    /\ ret = Return(None)
    /\ written = NothingWritten
    /\ file = <<>>
    /\ io = <<>>
    /\ env = NoEnv

\* the history of writes after a set_cell(row, col, value) that ended as ret'
NoteSetCell(row, col, value) ==
    written' = IF ret'.exc = "" THEN [written EXCEPT ![<<row, col>>] = <<value>>]
               ELSE written

\* the history of writes after an append_row(values) that ended as ret'
NoteAppendRow(values) ==
    written' = IF ret'.exc = ""
               THEN [rc \in DOMAIN written |->
                        IF rc[1] = ret'.val
                        THEN (IF rc[2] <= Len(values) THEN <<values[rc[2]]>> ELSE <<>>)
                        ELSE written[rc]]
               ELSE written

\* set_cell called with coordinates from low up and a value of vals
SetCellStep(low, vals) ==
    \E row \in low..MaxRow, col \in low..MaxCol, value \in vals :
        /\ set_cell(row, col, value)
        /\ InBounds(rows')
        /\ NoteSetCell(row, col, value)
        /\ io' = <<>>
        /\ UNCHANGED <<file, env>>

AppendRowStep(vals) ==
    \E values \in RowsOf(vals, MaxCol) :
        /\ append_row(values)
        /\ InBounds(rows')
        /\ NoteAppendRow(values)
        /\ io' = <<>>
        /\ UNCHANGED <<file, env>>

ClearStep ==
    /\ clear
    /\ written' = NothingWritten
    /\ io' = <<>>
    /\ UNCHANGED <<file, env>>

GetCellStep ==
    \E row \in ReadCoords(MaxRow), col \in ReadCoords(MaxCol) :
        /\ get_cell(row, col)
        /\ io' = <<>>
        /\ UNCHANGED <<written, file, env>>

GetRowStep ==
    \E row \in ReadCoords(MaxRow) :
        /\ get_row(row)
        /\ io' = <<>>
        /\ UNCHANGED <<written, file, env>>

GetColumnStep ==
    \E col \in ReadCoords(MaxCol) :
        /\ get_column(col)
        /\ io' = <<>>
        /\ UNCHANGED <<written, file, env>>

GetMaxRowStep ==
    get_max_row /\ io' = <<>> /\ UNCHANGED <<written, file, env>>

GetMaxColumnStep ==
    get_max_column /\ io' = <<>> /\ UNCHANGED <<written, file, env>>

GetAllRowsStep ==
    get_all_rows /\ io' = <<>> /\ UNCHANGED <<written, file, env>>

DisplayStep ==
    display /\ UNCHANGED <<written, file, env>>

Next ==
    \/ SetCellStep(0 - 1, Values)
    \/ AppendRowStep(Values)
    \/ ClearStep
    \/ GetCellStep
    \/ GetRowStep
    \/ GetColumnStep
    \/ GetMaxRowStep
    \/ GetMaxColumnStep
    \/ GetAllRowsStep
    \/ DisplayStep

Spec == Init /\ [][Next]_vars

----------------------------------------------------------------------------
(* CsvSheet: the csv module's writer and reader in the default (excel) dialect *)

Dialect == [delimiter |-> 44, quotechar |-> 34, lineterminator |-> <<13, 10>>]

\* the end-of-line mark the reader feeds its parser after every physical line
EOL == 0 - 2

IsNewline(c) == c = 10 \/ c = 13

\* csv.writer: a field is quoted when it holds the delimiter, the quote character or
\* a character of the line terminator
needs_quote(field) ==
    \E i \in 1..Len(field) :
        \/ field[i] = Dialect.delimiter
        \/ field[i] = Dialect.quotechar
        \/ \E j \in 1..Len(Dialect.lineterminator) : field[i] = Dialect.lineterminator[j]

\* csv.writer: the characters of a field, each quote character doubled
RECURSIVE doubled(_)
doubled(field) ==
    IF field = <<>> THEN <<>>
    ELSE (IF Head(field) = Dialect.quotechar
          THEN <<Dialect.quotechar, Dialect.quotechar>>
          ELSE <<Head(field)>>) \o doubled(Tail(field))

write_field(field) ==
    IF needs_quote(field)
    THEN <<Dialect.quotechar>> \o doubled(field) \o <<Dialect.quotechar>>
    ELSE field

\* csv.writer.writerow: the fields joined by the delimiter; a record that would be
\* empty though it has a field is written as a quoted empty field
writerow(fields) ==
    LET rec == Join(<<Dialect.delimiter>>, [i \in 1..Len(fields) |-> write_field(fields[i])])
    IN  (IF Len(fields) > 0 /\ rec = <<>>
         THEN <<Dialect.quotechar, Dialect.quotechar>>
         ELSE rec) \o Dialect.lineterminator

\* csv.reader: the parser after one character (or EOL)
save_field(p) == [p EXCEPT !.fields = Append(p.fields, p.field), !.field = <<>>]

add_char(p, c) == [p EXCEPT !.field = Append(p.field, c)]

AfterNewline(p, c) ==
    [p EXCEPT !.state = IF c = EOL THEN "START_RECORD" ELSE "EAT_CRNL"]

start_field(p, c) ==
    IF IsNewline(c) \/ c = EOL THEN AfterNewline(save_field(p), c)
    ELSE IF c = Dialect.quotechar THEN [p EXCEPT !.state = "IN_QUOTED_FIELD"]
    ELSE IF c = Dialect.delimiter THEN save_field(p)
    ELSE [add_char(p, c) EXCEPT !.state = "IN_FIELD"]

process_char(p, c) ==
    CASE p.state = "START_RECORD" ->
             IF c = EOL THEN p
             ELSE IF IsNewline(c) THEN [p EXCEPT !.state = "EAT_CRNL"]
             ELSE start_field([p EXCEPT !.state = "START_FIELD"], c)
      [] p.state = "START_FIELD" -> start_field(p, c)
      [] p.state = "IN_FIELD" ->
             IF IsNewline(c) \/ c = EOL THEN AfterNewline(save_field(p), c)
             ELSE IF c = Dialect.delimiter
                  THEN [save_field(p) EXCEPT !.state = "START_FIELD"]
             ELSE add_char(p, c)
      [] p.state = "IN_QUOTED_FIELD" ->
             IF c = EOL THEN p
             ELSE IF c = Dialect.quotechar
                  THEN [p EXCEPT !.state = "QUOTE_IN_QUOTED_FIELD"]
             ELSE add_char(p, c)
      [] p.state = "QUOTE_IN_QUOTED_FIELD" ->
             IF c = Dialect.quotechar
             THEN [add_char(p, c) EXCEPT !.state = "IN_QUOTED_FIELD"]
             ELSE IF c = Dialect.delimiter
                  THEN [save_field(p) EXCEPT !.state = "START_FIELD"]
             ELSE IF IsNewline(c) \/ c = EOL THEN AfterNewline(save_field(p), c)
             ELSE [add_char(p, c) EXCEPT !.state = "IN_FIELD"]
      [] p.state = "EAT_CRNL" ->
             IF IsNewline(c) THEN p
             ELSE IF c = EOL THEN [p EXCEPT !.state = "START_RECORD"]
             ELSE [p EXCEPT !.state = "ERROR"]
      [] OTHER -> p

\* the reader returns a record each time the parser is back at START_RECORD after a line
end_line(p) ==
    LET q == process_char(p, EOL)
    IN  IF q.state = "START_RECORD"
        THEN [q EXCEPT !.records = Append(q.records, q.fields), !.fields = <<>>]
        ELSE q

\* a physical line of a file opened with newline="" ends after "\n", after a "\r"
\* that no "\n" follows, and at the end of the text
line_ends(text, i) ==
    \/ i = Len(text)
    \/ text[i] = 10
    \/ text[i] = 13 /\ text[i + 1] # 10

RECURSIVE read_from(_, _, _)
read_from(text, i, p) ==
    IF i > Len(text) \/ p.state = "ERROR" THEN p
    ELSE LET q == process_char(p, text[i])
         IN  read_from(text, i + 1, IF line_ends(text, i) THEN end_line(q) ELSE q)

\* list(csv.reader(f)): the records of the text; at the end of the input a field left
\* open is saved and its record returned
read_records(text) ==
    LET p == read_from(text, 1, [state |-> "START_RECORD", field |-> <<>>,
                                 fields |-> <<>>, records |-> <<>>])
    IN  IF p.state = "START_RECORD" \/ p.state = "ERROR" THEN p.records
        ELSE IF p.field # <<>> \/ p.state = "IN_QUOTED_FIELD"
             THEN Append(p.records, Append(p.fields, p.field))
        ELSE p.records

----------------------------------------------------------------------------
(* CsvSheet *)

RECURSIVE Concat(_)
Concat(parts) == IF parts = <<>> THEN <<>> ELSE Head(parts) \o Concat(Tail(parts))

text_or_empty(cell) == IF cell # None THEN cell[1] ELSE <<>>

\* a faulty _flush_to_csv, leaving the None cells out of a row
flush_to_csv_skipping_none(rws) ==
    Concat([i \in 1..Len(rws) |->
               writerow(SelectSeq([j \in 1..Len(rws[i]) |-> text_or_empty(rws[i][j])],
                                  LAMBDA t : t # <<>>))])

\* the text _flush_to_csv writes
flush_to_csv(rws) ==
    Concat([i \in 1..Len(rws) |->
               writerow([j \in 1..Len(rws[i]) |-> text_or_empty(rws[i][j])])])

\* the rows _load_from_csv leaves: rws when the file does not exist
load_from_csv(f, rws) ==
    IF f = <<>> THEN rws
    ELSE LET recs == read_records(f[1])
         IN  [i \in 1..Len(recs) |->
                [j \in 1..Len(recs[i]) |->
                    IF recs[i][j] # <<>> THEN Some(recs[i][j]) ELSE None]]

\* CsvSheet(path) on the path of the backing file
csv_init ==
    /\ op' = Call("__init__", 0, 0, NoValue, <<>>)
    /\ rows' = load_from_csv(file, <<>>)
    /\ ret' = Return(None)
    /\ io' = IF file = <<>> THEN <<>> ELSE <<"read">>
    /\ file' = file

\* a faulty CsvSheet.set_cell, rewriting the file before the call to the engine
csv_set_cell_flush_first(row, col, value) ==
    /\ set_cell(row, col, value)
    /\ file' = Some(flush_to_csv(rows))
    /\ io' = <<"write">>

csv_set_cell(row, col, value) ==
    /\ set_cell(row, col, value)
    /\ IF ret'.exc = ""
       THEN file' = Some(flush_to_csv(rows')) /\ io' = <<"write">>
       ELSE file' = file /\ io' = <<>>

csv_append_row(values) ==
    /\ append_row(values)
    /\ IF ret'.exc = ""
       THEN file' = Some(flush_to_csv(rows')) /\ io' = <<"write">>
       ELSE file' = file /\ io' = <<>>

csv_clear ==
    /\ clear
    /\ file' = Some(flush_to_csv(rows'))
    /\ io' = <<"write">>

\* the texts the file adapter is driven with: "", "a" and the text of a quote
\* character, a delimiter and a line feed
CsvValues == {PyStr(<<>>), PyStr(<<97>>), PyStr(<<34, 44, 10>>)}

CsvInitStep ==
    csv_init /\ UNCHANGED <<written, env>>

CsvSetCellStep(low, vals) ==
    \E row \in low..MaxRow, col \in low..MaxCol, value \in vals :
        /\ csv_set_cell(row, col, value)
        /\ InBounds(rows')
        /\ NoteSetCell(row, col, value)
        /\ UNCHANGED env

CsvAppendRowStep(vals) ==
    \E values \in RowsOf(vals, MaxCol) :
        /\ csv_append_row(values)
        /\ InBounds(rows')
        /\ NoteAppendRow(values)
        /\ UNCHANGED env

CsvClearStep ==
    csv_clear /\ written' = NothingWritten /\ UNCHANGED env

\* a CsvSheet on a path where no file exists yet
InitCsv ==
    /\ rows = <<>>
    /\ op = Call("__init__", 0, 0, NoValue, <<>>)
    /\ ret = Return(None)
    /\ written = NothingWritten
    /\ file = <<>>
    /\ io = <<>>
    /\ env = NoEnv

\* the file adapter written through and constructed again on its path
NextCsv ==
    \/ CsvSetCellStep(1, CsvValues)
    \/ CsvAppendRowStep(CsvValues)
    \/ CsvClearStep
    \/ CsvInitStep

SpecCsv == InitCsv /\ [][NextCsv]_vars

\* the value the file adapter is driven with when the coordinates are what matters
CallValues == {PyInt(7)}

\* the file adapter called with every kind of coordinate
NextCsvCalls ==
    \/ CsvSetCellStep(0 - 1, CallValues)
    \/ CsvAppendRowStep(CallValues)
    \/ CsvClearStep
    \/ CsvInitStep
    \/ GetCellStep
    \/ GetRowStep
    \/ GetColumnStep

SpecCsvCalls == InitCsv /\ [][NextCsvCalls]_vars

----------------------------------------------------------------------------
(* GoogleSheet: each mutation is applied to the local grid, then sent to the      *)
(* worksheet.  A call to the worksheet either succeeds or raises; io records the   *)
(* calls made, each with whether the worksheet carried it out.                     *)

RemoteCall(name, row, col, value, values, ok) ==
    [call |-> name, row |-> row, col |-> col, value |-> value, values |-> values, ok |-> ok]

\* a faulty GoogleSheet.set_cell, calling the worksheet before the local grid
gs_set_cell_remote_first(row, col, value, fails) ==
    /\ op' = Call("set_cell", row, col, value, <<>>)
    /\ io' = <<RemoteCall("update_cell", row, col, Str(value), <<>>, ~fails)>>
    /\ IF fails
       THEN rows' = rows /\ ret' = Raise("RemoteError")
       ELSE IF ~validate_row_col(row, col)
            THEN rows' = rows /\ ret' = Raise("InvalidParameter")
            ELSE rows' = write_cell(rows, row, col, value) /\ ret' = Return(None)

\* GoogleSheet.set_cell; fails: the worksheet's update_cell raises
gs_set_cell(row, col, value, fails) ==
    /\ op' = Call("set_cell", row, col, value, <<>>)
    /\ IF ~validate_row_col(row, col)
       THEN /\ rows' = rows
            /\ ret' = Raise("InvalidParameter")
            /\ io' = <<>>
       ELSE /\ rows' = write_cell(rows, row, col, value)
            /\ io' = <<RemoteCall("update_cell", row, col, Str(value), <<>>, ~fails)>>
            /\ ret' = IF fails THEN Raise("RemoteError") ELSE Return(None)

\* GoogleSheet.append_row; fails: the worksheet's append_row raises
gs_append_row(values, fails) ==
    /\ op' = Call("append_row", 0, 0, NoValue, values)
    /\ IF values = <<>>
       THEN /\ rows' = rows
            /\ ret' = Raise("InvalidParameter")
            /\ io' = <<>>
       ELSE /\ rows' = Append(rows, coerce_row(values))
            /\ io' = <<RemoteCall("append_row", 0, 0, <<>>,
                                  [i \in 1..Len(values) |-> Str(values[i])], ~fails)>>
            /\ ret' = IF fails THEN Raise("RemoteError") ELSE Return(Len(rows'))

\* GoogleSheet.clear; fails: the worksheet's clear raises
gs_clear(fails) ==
    /\ op' = Call("clear", 0, 0, NoValue, <<>>)
    /\ rows' = <<>>
    /\ io' = <<RemoteCall("clear", 0, 0, <<>>, <<>>, ~fails)>>
    /\ ret' = IF fails THEN Raise("RemoteError") ELSE Return(None)

GsSetCellStep ==
    \E row \in WriteCoords(MaxRow), col \in WriteCoords(MaxCol), value \in Values,
       fails \in BOOLEAN :
        /\ gs_set_cell(row, col, value, fails)
        /\ InBounds(rows')
        /\ UNCHANGED <<written, file, env>>

GsAppendRowStep ==
    \E values \in RowsOf(Values, MaxCol), fails \in BOOLEAN :
        /\ gs_append_row(values, fails)
        /\ InBounds(rows')
        /\ UNCHANGED <<written, file, env>>

GsClearStep ==
    \E fails \in BOOLEAN :
        /\ gs_clear(fails)
        /\ UNCHANGED <<written, file, env>>

\* a GoogleSheet on an empty worksheet
NextRemote ==
    \/ GsSetCellStep
    \/ GsAppendRowStep
    \/ GsClearStep

SpecRemote == Init /\ [][NextRemote]_vars

----------------------------------------------------------------------------
(* GoogleSheet construction: the credentials.  env holds the arguments of the      *)
(* construction, the environment variables (None when unset) and the files that    *)
(* exist.  Paths and variable values are strings.                                  *)

\* Python truth of an Optional[str]
Truthy(x) == x # None /\ x[1] # ""

\* Path(s): the empty path is the current directory
PathOf(s) == IF s = "" THEN "." ELSE s

\* Path.exists(): the current directory exists
path_exists(path, files) == path = "." \/ path \in files

\* Credentials.from_service_account_file(path): opening a directory raises
from_service_account_file(path) ==
    IF path = "." THEN Raise("IsADirectoryError")
    ELSE Return([source |-> "service_account_file", path |-> path])

\* GoogleSheet._build_credentials
build_credentials(credentials_path, environ, files) ==
    IF Truthy(environ.GOOGLE_PRIVATE_KEY)
    THEN Return([source |-> "service_account_info", path |-> ""])
    ELSE LET path == IF credentials_path # None
                     THEN PathOf(credentials_path[1])
                     ELSE PathOf(IF environ.GOOGLE_APPLICATION_CREDENTIALS # None
                                 THEN environ.GOOGLE_APPLICATION_CREDENTIALS[1]
                                 ELSE "")
         IN  IF ~path_exists(path, files)
             THEN Raise("InvalidParameter")
             ELSE from_service_account_file(path)

\* GoogleSheet.__init__: the credentials, then the calls to the service
google_sheet_init(credentials_path) ==
    LET creds == build_credentials(credentials_path, env.environ, env.files)
    IN  /\ op' = Call("GoogleSheet", 0, 0, NoValue, <<>>)
        /\ ret' = creds
        /\ io' = IF creds.exc = "" THEN <<"open_by_key", "worksheet", "get_all_values">>
                 ELSE <<>>
        /\ rows' = <<>>

\* open_sheet(online=True, spreadsheet_id=..., credentials_path=...)
open_sheet(credentials_path) ==
    google_sheet_init(IF Truthy(credentials_path)
                      THEN credentials_path
                      ELSE env.environ.GOOGLE_APPLICATION_CREDENTIALS)

CredentialPaths == {"key.json", "other.json", "missing.json"}

Environs ==
    [GOOGLE_PRIVATE_KEY : {None, Some(""), Some("PEM")},
     GOOGLE_APPLICATION_CREDENTIALS : {None, Some("")} \cup {Some(q) : q \in CredentialPaths}]

\* any arguments, environment and files before a construction
InitCred ==
    /\ rows = <<>>
    /\ op = Call("", 0, 0, NoValue, <<>>)
    /\ ret = Return(None)
    /\ written = NothingWritten
    /\ file = <<>>
    /\ io = <<>>
    /\ env \in [kind : {"credentials"},
                credentials_path : {None, Some("")} \cup {Some(q) : q \in CredentialPaths},
                environ : Environs,
                files : SUBSET {"key.json", "other.json"}]

GoogleSheetStep ==
    /\ op.name = ""
    /\ google_sheet_init(env.credentials_path)
    /\ UNCHANGED <<written, file, env>>

OpenSheetStep ==
    /\ op.name = ""
    /\ open_sheet(env.credentials_path)
    /\ UNCHANGED <<written, file, env>>

NextCred ==
    \/ GoogleSheetStep
    \/ OpenSheetStep

SpecCred == InitCred /\ [][NextCred]_vars

----------------------------------------------------------------------------
(* The grid engine displayed *)

\* the values the displayed grid is filled with: a wide character, the int 12 (two
\* narrow characters) and the text of main.py, two narrow characters and a wide one
DisplayValues == {PyStr(<<26376>>), PyInt(12), PyStr(<<49, 50, 26376>>)}

NextDisplay ==
    \/ SetCellStep(1, DisplayValues)
    \/ AppendRowStep(DisplayValues)
    \/ ClearStep
    \/ DisplayStep

SpecDisplay == Init /\ [][NextDisplay]_vars

----------------------------------------------------------------------------
(* Properties of the grid engine *)

ReadOps == {"get_cell", "get_row", "get_column", "get_max_row", "get_max_column",
            "get_all_rows", "display"}

\* the value the history of writes gives for a coordinate
LastWritten(row, col) ==
    IF <<row, col>> \in DOMAIN written /\ written[<<row, col>>] # <<>>
    THEN Some(Str(written[<<row, col>>][1]))
    ELSE None

\* C1: at every coordinate >= 1 the grid reads str(v) of the last write that covered
\* it since the last clear (set_cell there, or the append_row that made its row), and
\* None when there is none; a get_cell that just returned gave exactly that value.
C1_ReadsLastWrite ==
    /\ \A row \in 1..(MaxRow + 1), col \in 1..(MaxCol + 1) :
           cell_value(rows, row, col) = LastWritten(row, col)
    /\ (op.name = "get_cell" /\ ret.exc = "")
           => ret.val = Cell(op.row, op.col, LastWritten(op.row, op.col))

\* a set_cell(1, 1, 7) has just overwritten a cell of a row whose second cell holds an
\* earlier write of "", in a grid with a second row
C1_Witness ==
    /\ op.name = "set_cell" /\ ret.exc = ""
    /\ op.row = 1 /\ op.col = 1 /\ op.value = PyInt(7)
    /\ Len(rows) = 2
    /\ rows[1] = <<Some(<<55>>), Some(<<>>)>>

\* C2: append_row(<<>>) raises InvalidParameter and leaves the grid as it was;
\* append_row of one value or more adds exactly one row, returns the new number of
\* rows, puts the values as text in that last row and changes no earlier row.
C2_AppendRow ==
    [][op'.name = "append_row" =>
          IF op'.values = <<>>
          THEN ret'.exc = "InvalidParameter" /\ rows' = rows
          ELSE /\ ret'.exc = ""
               /\ Len(rows') = Len(rows) + 1
               /\ ret'.val = Len(rows')
               /\ rows'[Len(rows')] = [i \in 1..Len(op'.values) |-> Some(Str(op'.values[i]))]
               /\ SubSeq(rows', 1, Len(rows)) = rows]_vars

\* an append_row of two values has just made the second row
C2_Witness ==
    /\ op.name = "append_row" /\ ret.exc = "" /\ ret.val = 2
    /\ Len(op.values) = 2
    /\ Len(rows) = 2 /\ rows[2] = <<Some(<<55>>), Some(<<>>)>>

\* C3: no operation but clear makes the grid or one of its rows shorter; a set_cell at
\* coordinates >= 1 never raises and leaves at least row rows and at least col cells in
\* that row; every read leaves the grid exactly as it was.
C3_GrowsOnlyOnWrite ==
    [][/\ op'.name # "clear" =>
              /\ Len(rows') >= Len(rows)
              /\ \A i \in 1..Len(rows) : Len(rows'[i]) >= Len(rows[i])
       /\ (op'.name = "set_cell" /\ op'.row >= 1 /\ op'.col >= 1) =>
              /\ ret'.exc = ""
              /\ Len(rows') >= op'.row
              /\ Len(rows'[op'.row]) >= op'.col
       /\ op'.name \in ReadOps => rows' = rows]_vars

\* a set_cell beyond both bounds has just grown the grid by an empty row and a padded row
C3_Witness ==
    /\ op.name = "set_cell" /\ ret.exc = "" /\ op.row = 2 /\ op.col = 2
    /\ rows = <<<<>>, <<None, Some(<<55>>)>>>>

\* the grid a new SimpleSheet holds
FreshRows == <<>>

\* what a read returns on a new, empty grid
FreshReturn(call) ==
    CASE call.name = "get_cell" ->
             IF call.row >= 1 /\ call.col >= 1
             THEN Return(Cell(call.row, call.col, None)) ELSE Raise("InvalidParameter")
      [] call.name = "get_row" ->
             IF call.row >= 1 THEN Return(<<>>) ELSE Raise("InvalidParameter")
      [] call.name = "get_column" ->
             IF call.col >= 1 THEN Return(<<>>) ELSE Raise("InvalidParameter")
      [] call.name = "get_max_row" -> Return(0)
      [] call.name = "get_max_column" -> Return(0)
      [] call.name = "get_all_rows" -> Return(<<>>)
      [] call.name = "display" -> Return(None)

\* C4: clear leaves the grid a new SimpleSheet holds, and a read that follows a clear
\* returns (and display prints) what it does on a new grid.
C4_ClearIsFresh ==
    [][/\ op'.name = "clear" => rows' = FreshRows /\ ret'.exc = ""
       /\ (op.name = "clear" /\ op'.name \in ReadOps) =>
              /\ ret' = FreshReturn(op')
              /\ rows' = FreshRows
              /\ op'.name = "display" => io' = <<EmptySheetText>>]_vars

\* a clear has just emptied the grid
C4_Witness ==
    op.name = "clear" /\ ret.exc = "" /\ rows = <<>>

\* the highest column written in a row since the last clear, 0 when none was
HighestWritten(row) ==
    LET cols == {col \in 1..MaxCol : written[<<row, col>>] # <<>>}
    IN  IF cols = {} THEN 0 ELSE CHOOSE col \in cols : \A other \in cols : other <= col

\* C6: each row is as long as the highest column written into it since the last clear
\* (0 for a row made only to reach a row below it); within that length a cell never
\* written holds None, and a cell written with "" holds the empty string, not None.
C6_RowLengths ==
    \A row \in 1..Len(rows) :
        /\ Len(rows[row]) = HighestWritten(row)
        /\ \A col \in 1..Len(rows[row]) :
               /\ written[<<row, col>>] = <<>> => rows[row][col] = None
               /\ written[<<row, col>>] = <<PyStr(<<>>)>> =>
                      rows[row][col] = Some(<<>>) /\ rows[row][col] # None

\* row 1 was made only to reach row 2, whose first cell was never written and whose
\* second cell was written with ""
C6_Witness ==
    /\ rows = <<<<>>, <<None, Some(<<>>)>>>>
    /\ written[<<2, 2>>] = <<PyStr(<<>>)>>

----------------------------------------------------------------------------
(* Properties of the file adapter *)

\* the call named a row or a column below 1
BadCoordinate(call) ==
    \/ call.name \in {"set_cell", "get_cell", "get_row"} /\ call.row < 1
    \/ call.name \in {"set_cell", "get_cell", "get_column"} /\ call.col < 1

\* C5: set_cell, get_cell, get_row and get_column called with a row or a column below 1
\* raise InvalidParameter, leave the grid as it was, perform no I/O and leave the
\* backing file of a CsvSheet as it was.
C5_BadCoordinateRejected ==
    [][BadCoordinate(op') =>
          /\ ret'.exc = "InvalidParameter"
          /\ rows' = rows
          /\ io' = <<>>
          /\ file' = file]_vars

\* a set_cell at column 0 of a row beyond the one row of the grid was rejected, the
\* file being there
C5_Witness ==
    /\ op.name = "set_cell" /\ op.row = 2 /\ op.col = 0
    /\ ret.exc = "InvalidParameter"
    /\ Len(rows) = 1
    /\ file # <<>>

\* what a reload makes of a cell: the empty string reads back as None
Reloaded(cell) == IF cell = Some(<<>>) THEN None ELSE cell

----------------------------------------------------------------------------
(* Properties of the remote adapter *)

\* the one call to the worksheet that belongs to a call of the adapter
MatchingCall(call, ok) ==
    CASE call.name = "set_cell" ->
             RemoteCall("update_cell", call.row, call.col, Str(call.value), <<>>, ok)
      [] call.name = "append_row" ->
             RemoteCall("append_row", 0, 0, <<>>,
                        [i \in 1..Len(call.values) |-> Str(call.values[i])], ok)
      [] call.name = "clear" -> RemoteCall("clear", 0, 0, <<>>, <<>>, ok)

\* the local grid has the change the call asks for
Committed(call, before, after) ==
    CASE call.name = "set_cell" ->
             /\ cell_value(after, call.row, call.col) = Some(Str(call.value))
             /\ \A i \in 1..Len(before) : \A j \in 1..Len(before[i]) :
                    <<i, j>> # <<call.row, call.col>> => after[i][j] = before[i][j]
      [] call.name = "append_row" ->
             /\ Len(after) = Len(before) + 1
             /\ after[Len(after)] = [i \in 1..Len(call.values) |-> Some(Str(call.values[i]))]
      [] call.name = "clear" -> after = <<>>

ValidArguments(call) ==
    CASE call.name = "set_cell" -> call.row >= 1 /\ call.col >= 1
      [] call.name = "append_row" -> call.values # <<>>
      [] call.name = "clear" -> TRUE

\* C8: a set_cell, append_row or clear of a GoogleSheet with valid arguments changes
\* the local grid and makes exactly one call to the worksheet, of the matching kind
\* and with the changed cell or the new row alone; when that call raises, the
\* adapter's call raises too, no second call is made and the local grid keeps the
\* change the worksheet did not carry out.
C8_LocalThenRemote ==
    [][ValidArguments(op') =>
          /\ Committed(op', rows, rows')
          /\ Len(io') = 1
          /\ io'[1] = MatchingCall(op', io'[1].ok)
          /\ io'[1].ok <=> ret'.exc = ""
          /\ ~io'[1].ok => ret'.exc = "RemoteError"]_vars

\* a set_cell(1, 1, 7) whose update_cell raised: the local cell holds "7"
C8_Witness ==
    /\ op.name = "set_cell" /\ op.row = 1 /\ op.col = 1 /\ op.value = PyInt(7)
    /\ ret.exc = "RemoteError"
    /\ io = <<RemoteCall("update_cell", 1, 1, <<55>>, <<>>, FALSE)>>
    /\ rows[1][1] = Some(<<55>>)

----------------------------------------------------------------------------
(* Properties of the credentials *)

\* the construction was given a credentials path that names an existing file
ExplicitGiven ==
    Truthy(env.credentials_path) /\ env.credentials_path[1] \in env.files

\* no source of credentials: no path given, no key and no path in the environment
NoSource ==
    /\ ~Truthy(env.credentials_path)
    /\ ~Truthy(env.environ.GOOGLE_PRIVATE_KEY)
    /\ ~Truthy(env.environ.GOOGLE_APPLICATION_CREDENTIALS)

\* C9: after a construction, credentials given as an argument are the ones used, and
\* with no source of credentials the construction has raised InvalidParameter before
\* any call to the service.
C9_ExplicitFirstElseInvalidParameter ==
    op.name = "GoogleSheet" =>
        /\ ExplicitGiven =>
               ret = Return([source |-> "service_account_file",
                             path |-> env.credentials_path[1]])
        /\ NoSource => ret.exc = "InvalidParameter" /\ io = <<>>

----------------------------------------------------------------------------
(* Properties of display *)

\* the display width the table is measured in: 1 up to 0x7F, 2 above
DisplayWidth(s) ==
    LET wide == Cardinality({i \in 1..Len(s) : s[i] > 127})
    IN  Len(s) + wide

\* the text a cell is displayed as: nothing when it is absent or None
Shown(row, col) ==
    IF col <= Len(rows[row]) /\ rows[row][col] # None THEN rows[row][col][1] ELSE <<>>

\* the width of a column: the widest of its cells
ColumnWidth(col) ==
    LET ws == {DisplayWidth(Shown(row, col)) : row \in 1..Len(rows)}
    IN  CHOOSE w \in ws : \A v \in ws : v <= w

\* the separator line of columns of the widths ws: +--...--+--...--+
RECURSIVE SeparatorLine(_)
SeparatorLine(ws) ==
    IF ws = <<>> THEN <<43>>
    ELSE <<43>> \o [i \in 1..(Head(ws) + 2) |-> 45] \o SeparatorLine(Tail(ws))

\* the line of a row: each cell as a space, its text, spaces up to the column's width
\* and a space, between bars
RECURSIVE RowLine(_, _)
RowLine(row, col) ==
    IF col > max_len(rows) THEN <<124>>
    ELSE <<124, 32>> \o Shown(row, col)
         \o [i \in 1..(ColumnWidth(col) - DisplayWidth(Shown(row, col))) |-> 32]
         \o <<32>> \o RowLine(row, col + 1)

\* C10: display of a grid of n >= 1 rows prints n + 3 lines: the separator line, the
\* first row, the separator line, the other rows, the separator line; the separator
\* line spans columns as wide as their widest cell, an absent or None cell counting
\* as empty; every row line holds its cells padded to those widths and is as wide as
\* the separator line.
C10_DisplayTable ==
    (op.name = "display" /\ rows # <<>>) =>
        LET n == Len(rows)
            sep == SeparatorLine([col \in 1..max_len(rows) |-> ColumnWidth(col)])
            line(row) == IF row = 1 THEN io[2] ELSE io[row + 2]
        IN  /\ Len(io) = n + 3
            /\ io[1] = sep /\ io[3] = sep /\ io[n + 3] = sep
            /\ \A row \in 1..n :
                   /\ line(row) = RowLine(row, 1)
                   /\ DisplayWidth(line(row)) = DisplayWidth(sep)

\* a grid of one row, a cell of one wide character and a cell of two narrow ones, was
\* displayed: both columns are 2 wide, and the separator closes the table twice
C10_Witness ==
    /\ op.name = "display"
    /\ rows = <<<<Some(<<26376>>), Some(<<49, 50>>)>>>>
    /\ io = <<<<43, 45, 45, 45, 45, 43, 45, 45, 45, 45, 43>>,
              <<124, 32, 26376, 32, 124, 32, 49, 50, 32, 124>>,
              <<43, 45, 45, 45, 45, 43, 45, 45, 45, 45, 43>>,
              <<43, 45, 45, 45, 45, 43, 45, 45, 45, 45, 43>>>>

----------------------------------------------------------------------------
(* Properties of the column reads *)

\* the length of the longest row of a grid, 0 for a grid of no rows
LongestRow(rws) ==
    IF rws = <<>> THEN 0
    ELSE CHOOSE n \in {Len(rws[r]) : r \in 1..Len(rws)} :
             \A r \in 1..Len(rws) : Len(rws[r]) <= n

\* the entry a column gives for a row: the row's cell when the row is long enough
EntryOf(rws, r, col) ==
    IF col <= Len(rws[r]) THEN rws[r][col] ELSE None

====
